---- MODULE Spec2Model ----
(***************************************************************************)
(* Model of src/main_blinky.c: main_blinky() registers four periodic tasks *)
(* with the FreeRTOS kernel and starts the scheduler; vTask1..vTask4 are   *)
(* print-and-delay loops.  The kernel (xTaskCreate, vTaskStartScheduler,   *)
(* vTaskDelay, the tick) is outside src/ and is modelled from the          *)
(* specification's description of the scheduler collaborator.              *)
(***************************************************************************)
EXTENDS Integers, Sequences, FiniteSets, TLC

VARIABLES
    mainpc,        \* position of main_blinky: the source line it is about to run
    sched,         \* kernel: "off" | "running" | "failed"
    state,         \* kernel: task -> "notcreated" | "ready" | "blocked"
    delay,         \* kernel: task -> ticks left before a blocked task wakes
    now,           \* observer: ticks elapsed since the scheduler started (saturating)
    pc,            \* task -> position inside its routine
    cVal,          \* vTask2 local (hundredths of a degree)
    resultMulti,   \* vTask3 local (decimal digits, least significant first)
    arr, i, targetNumber, lowBound, highBound, result, mid,   \* vTask4 locals
    lastMsg,       \* console: task -> the last message that task wrote
    emits,         \* observer: task -> messages written in the current activation
    lastAct        \* observer: task -> what the last completed activation did

kernel == <<sched, state, delay, now>>
t2vars == <<cVal>>
t3vars == <<resultMulti>>
t4vars == <<arr, i, targetNumber, lowBound, highBound, result, mid>>
console == <<lastMsg, emits, lastAct>>
vars == <<mainpc, sched, state, delay, now, pc, cVal, resultMulti,
          arr, i, targetNumber, lowBound, highBound, result, mid,
          lastMsg, emits, lastAct>>

Tasks == 1..4

(***************************************************************************)
(* Bounds of the model.                                                    *)
(***************************************************************************)
\* The observer clock `now` stops counting at MaxTime ticks.
MaxTime == 1200
\* Targets SearchInit draws for the search in isolation: -Below .. 49 + Above.
Below == 2
Above == 2

(***************************************************************************)
(* Arithmetic helpers.                                                     *)
(***************************************************************************)
Min(a, b) == IF a <= b THEN a ELSE b

\* C integer division truncates toward zero.
CDiv(a, b) == IF a >= 0 THEN a \div b ELSE -((-a) \div b)

\* Unbounded naturals as sequences of decimal digits, least significant first
\* (the operands of vTask3 do not fit a 32-bit integer).
RECURSIVE Reverse(_)
Reverse(s) == IF s = <<>> THEN <<>> ELSE Append(Reverse(Tail(s)), Head(s))

RECURSIVE Strip(_)
Strip(d) == IF d = <<>> THEN <<>>
            ELSE IF d[Len(d)] = 0 THEN Strip(SubSeq(d, 1, Len(d) - 1))
            ELSE d

\* Dec(<<1, 2, 3>>) is the number 123.
Dec(digits) == Strip(Reverse(digits))

RECURSIVE AddC(_, _, _)
AddC(a, b, c) ==
    IF a = <<>> /\ b = <<>> THEN (IF c = 0 THEN <<>> ELSE <<c>>)
    ELSE LET x == IF a = <<>> THEN 0 ELSE Head(a)
             y == IF b = <<>> THEN 0 ELSE Head(b)
             s == x + y + c
         IN  <<s % 10>> \o AddC(IF a = <<>> THEN <<>> ELSE Tail(a),
                                IF b = <<>> THEN <<>> ELSE Tail(b), s \div 10)

Add(a, b) == Strip(AddC(a, b, 0))

RECURSIVE MulDigitC(_, _, _)
MulDigitC(a, d, c) ==
    IF a = <<>> THEN (IF c = 0 THEN <<>> ELSE <<c>>)
    ELSE LET s == Head(a) * d + c
         IN  <<s % 10>> \o MulDigitC(Tail(a), d, s \div 10)

RECURSIVE Mul(_, _)
Mul(a, b) == IF b = <<>> THEN <<>>
             ELSE Add(Strip(MulDigitC(a, Head(b), 0)),
                      Strip(<<0>> \o Mul(a, Tail(b))))

\* a <= b: equal lengths compare at the most significant digit that differs.
Leq(a, b) ==
    IF Len(a) # Len(b) THEN Len(a) < Len(b)
    ELSE LET D == {k \in 1..Len(a) : a[k] # b[k]}
         IN  D = {} \/ (LET m == CHOOSE k \in D : \A j \in D : j <= k IN a[m] < b[m])

(***************************************************************************)
(* Program constants.                                                      *)
(***************************************************************************)
\* Tick rate of the kernel configuration (FreeRTOSConfig.h, outside src/).
configTICK_RATE_HZ == 1000

pdMS_TO_TICKS(ms) == (ms * configTICK_RATE_HZ) \div 1000

TASK1_PERIOD == pdMS_TO_TICKS(200)
TASK2_PERIOD == pdMS_TO_TICKS(500)
TASK3_PERIOD == pdMS_TO_TICKS(1000)
\* Variant: vTask4 given the period of vTask1.
TASK4_PERIOD_Pasted == pdMS_TO_TICKS(200)
TASK4_PERIOD == pdMS_TO_TICKS(100)

\* vTask2
fVal == 9120
\* (fVal - 32) * 5 / 9.0, as printf's %.2f shows it: hundredths, rounded to nearest.
Celsius(f) == ((f - 32) * 5 * 200 + 9) \div 18

\* vTask3: long int is 64 bits wide on the Linux port this demo targets;
\* LONG_MAX is 2^63 - 1.
LONG_MAX == Dec(<<9, 2, 2, 3, 3, 7, 2, 0, 3, 6, 8, 5, 4, 7, 7, 5, 8, 0, 7>>)
\* Variant: a first operand with one more zero, whose product exceeds LONG_MAX.
firstNumExtraZero == Dec(<<1, 0, 0, 0, 0, 0, 0, 0, 0, 0, 0>>)
firstNum == Dec(<<1, 0, 0, 0, 0, 0, 0, 0, 0, 0>>)
secondNum == Dec(<<2, 5, 6, 4, 8, 5, 1, 1, 1, 1>>)
FitsLong(x) == Leq(x, LONG_MAX)
\* The values a signed long product may hold: the exact product when it fits;
\* signed overflow is undefined, so any of several values otherwise.
LongMul(a, b) ==
    LET p == Mul(a, b)
    IN  IF FitsLong(p) THEN {p}
        ELSE {<<>>, Strip(SubSeq(p, 1, Min(Len(p), 18))), Dec(<<1>>)}

\* vTask4
ArrLen == 50
TargetLiteral == 36
LowInit == 0
HighInit == 49
ResultInit == -1

\* printf: a message is its format string and its arguments.
Msg(f, a) == [fmt |-> f, args |-> a]
NoMsg == Msg("", <<>>)
Msg1 == Msg("Task 1 : Completed. \n", <<>>)
Msg2(f, c) == Msg("The temperature %.2f in Fahrenheit is equivalent to  %.2f in Celsius\n",
                  <<f * 100, c>>)
Msg3(n) == Msg("The result of the multiplication is : %ld\n", <<n>>)
MsgFound(tgt, idx) == Msg("The element %d is found at the index %d.\n", <<tgt, idx>>)
MsgNotFound(tgt) == Msg("The element %d is not found in the list.\n", <<tgt>>)

NoAct == [done |-> FALSE, msgs |-> 0, ticks |-> 0]

\* The array is the sequence of its written cells: C's arr[k] is the k+1-th
\* element (the fill loop writes the cells in order from 0).  Before any cell
\* is written no cell holds a defined value.
EmptyArr == <<>>
Identity == [k \in 1..ArrLen |-> k - 1]

\* arr[k] = v, for a cell already written or the next one.
WriteArr(a, k, v) == IF k = Len(a) THEN Append(a, v) ELSE [a EXCEPT ![k + 1] = v]

\* Reading arr[k]: the stored value for a cell that was written; reading outside
\* the array or an unwritten cell is undefined: any value, represented by one
\* value below, one equal to and one above the value it is compared with.
Written(a, k) == k >= 0 /\ k < Len(a)

ReadArr(a, k, cmp) == IF Written(a, k) THEN {a[k + 1]} ELSE {cmp - 1, cmp, cmp + 1}

\* A vTask3 whose loop body delays before it computes and prints.
TaskEntryDelayFirst(t) == CASE t = 1 -> "L159" [] t = 2 -> "L168"
                            [] t = 3 -> "L181" [] t = 4 -> "L187"

\* The first statement of each task routine's loop body.
TaskEntry(t) == CASE t = 1 -> "L159" [] t = 2 -> "L168"
                  [] t = 3 -> "L179" [] t = 4 -> "L187"

(***************************************************************************)
(* Initial state: main_blinky is entered, nothing is created yet.          *)
(***************************************************************************)
Init ==
    /\ mainpc = "L122"
    /\ sched = "off"
    /\ state = [t \in Tasks |-> "notcreated"]
    /\ delay = [t \in Tasks |-> 0]
    /\ now = 0
    /\ pc = [t \in Tasks |-> TaskEntry(t)]
    /\ cVal = 0
    /\ resultMulti = <<>>
    /\ arr = EmptyArr
    /\ i = 0
    /\ targetNumber = 0
    /\ lowBound = 0
    /\ highBound = 0
    /\ result = 0
    /\ mid = 0
    /\ lastMsg = [t \in Tasks |-> NoMsg]
    /\ emits = [t \in Tasks |-> 0]
    /\ lastAct = [t \in Tasks |-> NoAct]

(***************************************************************************)
(* Kernel operations (external collaborator).                              *)
(***************************************************************************)
\* xTaskCreate: the task becomes ready, or the kernel cannot allocate it and
\* returns an error code (which main_blinky does not read).
xTaskCreate(t, ok) ==
    /\ state' = [state EXCEPT ![t] = IF ok THEN "ready" ELSE @]
    /\ UNCHANGED <<sched, delay, now>>

\* vTaskDelay: the calling task blocks for the given number of ticks.
vTaskDelay(t, ticks) ==
    /\ state' = [state EXCEPT ![t] = IF ticks > 0 THEN "blocked" ELSE @]
    /\ delay' = [delay EXCEPT ![t] = ticks]
    /\ UNCHANGED <<sched, now>>

\* Any ready task may be the one that runs: the four tasks have distinct
\* priorities (lines 96-99), and the priority order is one of the
\* interleavings allowed here.
Runnable(t) == sched = "running" /\ state[t] = "ready"

\* The ticks up to the next wake-up.  Task code takes no time at the scale of
\* a tick, so the tick count advances only when no task is ready; nothing but
\* the idle task runs until the blocked task with the shortest remaining
\* delay wakes, and these ticks are taken in one step.  A blocked task whose
\* delay runs out becomes ready.
Blocked == {t \in Tasks : state[t] = "blocked"}

IdleTicks == IF Blocked = {} THEN 1
             ELSE CHOOSE d \in {delay[t] : t \in Blocked} : \A t \in Blocked : d <= delay[t]

Tick ==
    /\ sched = "running"
    /\ \A t \in Tasks : state[t] # "ready"
    /\ now' = Min(now + IdleTicks, MaxTime)
    /\ delay' = [t \in Tasks |-> IF t \in Blocked THEN delay[t] - IdleTicks ELSE delay[t]]
    /\ state' = [t \in Tasks |-> IF t \in Blocked /\ delay[t] = IdleTicks
                                  THEN "ready" ELSE state[t]]
    /\ UNCHANGED <<mainpc, sched, pc, t2vars, t3vars, t4vars, console>>

\* What printf and the call of vTaskDelay leave on the console and in the
\* observers.
Emit(t, m) ==
    /\ lastMsg' = [lastMsg EXCEPT ![t] = m]
    /\ emits' = [emits EXCEPT ![t] = Min(@ + 1, 2)]
    /\ UNCHANGED lastAct

DelayRequest(t, ticks) ==
    /\ vTaskDelay(t, ticks)
    /\ lastAct' = [lastAct EXCEPT ![t] = [done |-> TRUE, msgs |-> emits[t], ticks |-> ticks]]
    /\ emits' = [emits EXCEPT ![t] = 0]
    /\ UNCHANGED lastMsg

(***************************************************************************)
(* main_blinky                                                             *)
(***************************************************************************)
MainCreate(t, at, next) ==
    /\ mainpc = at
    /\ \E ok \in BOOLEAN : xTaskCreate(t, ok)
    /\ mainpc' = next
    /\ UNCHANGED <<pc, t2vars, t3vars, t4vars, console>>

\* vTaskStartScheduler: the scheduler runs the tasks and the call never
\* returns, or there is no heap for the idle task and the call returns.
MainStart ==
    /\ mainpc = "L148"
    /\ \/ sched' = "running" /\ mainpc' = "scheduler"
       \/ sched' = "failed" /\ mainpc' = "L153"
    /\ UNCHANGED <<state, delay, now, pc, t2vars, t3vars, t4vars, console>>

\* Variant: main_blinky calls vTaskStartScheduler again instead of spinning.
MainSpinRestart ==
    /\ mainpc = "L153"
    /\ mainpc' = "L148"
    /\ sched' = "off"
    /\ UNCHANGED <<state, delay, now, pc, t2vars, t3vars, t4vars, console>>

\* for (;;) { }
MainSpin ==
    /\ mainpc = "L153"
    /\ UNCHANGED vars

main_blinky ==
    \/ MainCreate(1, "L122", "L128")
    \/ MainCreate(2, "L128", "L134")
    \/ MainCreate(3, "L134", "L140")
    \/ MainCreate(4, "L140", "L148")
    \/ MainStart
    \/ MainSpin

(***************************************************************************)
(* vTask1                                                                  *)
(***************************************************************************)
T1Print ==
    /\ Runnable(1) /\ pc[1] = "L159"
    /\ Emit(1, Msg1)
    /\ pc' = [pc EXCEPT ![1] = "L160"]
    /\ UNCHANGED <<mainpc, kernel, t2vars, t3vars, t4vars>>

\* Variant: vTask1 without its for (;;): the routine ends after the delay.
T1DelayNoLoop ==
    /\ Runnable(1) /\ pc[1] = "L160"
    /\ DelayRequest(1, TASK1_PERIOD)
    /\ pc' = [pc EXCEPT ![1] = "L162"]
    /\ UNCHANGED <<mainpc, t2vars, t3vars, t4vars>>

T1Delay ==
    /\ Runnable(1) /\ pc[1] = "L160"
    /\ DelayRequest(1, TASK1_PERIOD)
    /\ pc' = [pc EXCEPT ![1] = "L159"]
    /\ UNCHANGED <<mainpc, t2vars, t3vars, t4vars>>

vTask1 == T1Print \/ T1Delay

(***************************************************************************)
(* vTask2                                                                  *)
(***************************************************************************)
T2Compute ==
    /\ Runnable(2) /\ pc[2] = "L168"
    /\ cVal' = Celsius(fVal)
    /\ pc' = [pc EXCEPT ![2] = "L169"]
    /\ UNCHANGED <<mainpc, kernel, t3vars, t4vars, console>>

T2Print ==
    /\ Runnable(2) /\ pc[2] = "L169"
    /\ Emit(2, Msg2(fVal, cVal))
    /\ pc' = [pc EXCEPT ![2] = "L170"]
    /\ UNCHANGED <<mainpc, kernel, t2vars, t3vars, t4vars>>

T2Delay ==
    /\ Runnable(2) /\ pc[2] = "L170"
    /\ DelayRequest(2, TASK2_PERIOD)
    /\ pc' = [pc EXCEPT ![2] = "L168"]
    /\ UNCHANGED <<mainpc, t2vars, t3vars, t4vars>>

vTask2 == T2Compute \/ T2Print \/ T2Delay

(***************************************************************************)
(* vTask3                                                                  *)
(***************************************************************************)
\* long int resultMulti = firstNum * secondNum;  the values it may hold.
T3Product == LongMul(firstNum, secondNum)

T3Compute ==
    /\ Runnable(3) /\ pc[3] = "L179"
    /\ resultMulti' \in T3Product
    /\ pc' = [pc EXCEPT ![3] = "L180"]
    /\ UNCHANGED <<mainpc, kernel, t2vars, t4vars, console>>

\* The value printed at line 180.
T3Printed == secondNum

T3Print ==
    /\ Runnable(3) /\ pc[3] = "L180"
    /\ Emit(3, Msg3(T3Printed))
    /\ pc' = [pc EXCEPT ![3] = "L181"]
    /\ UNCHANGED <<mainpc, kernel, t2vars, t3vars, t4vars>>

T3Delay ==
    /\ Runnable(3) /\ pc[3] = "L181"
    /\ DelayRequest(3, TASK3_PERIOD)
    /\ pc' = [pc EXCEPT ![3] = "L179"]
    /\ UNCHANGED <<mainpc, t2vars, t3vars, t4vars>>

vTask3 == T3Compute \/ T3Print \/ T3Delay

(***************************************************************************)
(* vTask4                                                                  *)
(***************************************************************************)
\* int arr[50]; int i = 0;  -- a fresh array, no cell written yet.
T4Declare ==
    /\ Runnable(4) /\ pc[4] = "L187"
    /\ arr' = EmptyArr
    /\ i' = 0
    /\ pc' = [pc EXCEPT ![4] = "L190"]
    /\ UNCHANGED <<mainpc, kernel, t2vars, t3vars, console,
                   targetNumber, lowBound, highBound, result, mid>>

\* for (i; i < 50; i++) arr[i] = i;   one iteration, or the exit of the loop.
T4Fill ==
    /\ Runnable(4) /\ pc[4] = "L190"
    /\ IF i < ArrLen
       THEN /\ arr' = WriteArr(arr, i, i)
            /\ i' = i + 1
            /\ pc' = pc
       ELSE /\ pc' = [pc EXCEPT ![4] = "L194"]
            /\ UNCHANGED <<arr, i>>
    /\ UNCHANGED <<mainpc, kernel, t2vars, t3vars, console,
                   targetNumber, lowBound, highBound, result, mid>>

\* Variant: the bounds and the result keep the values of the previous
\* activation (as locals declared static, or hoisted out of the loop, would).
T4InitStale ==
    /\ Runnable(4) /\ pc[4] = "L194"
    /\ targetNumber' = TargetLiteral
    /\ pc' = [pc EXCEPT ![4] = "L200"]
    /\ UNCHANGED <<mainpc, kernel, t2vars, t3vars, console, arr, i, mid,
                   lowBound, highBound, result>>

\* int targetNumber = 36; int lowBound = 0; int highBound = 49; int result = -1;
T4Init ==
    /\ Runnable(4) /\ pc[4] = "L194"
    /\ targetNumber' = TargetLiteral
    /\ lowBound' = LowInit
    /\ highBound' = HighInit
    /\ result' = ResultInit
    /\ pc' = [pc EXCEPT ![4] = "L200"]
    /\ UNCHANGED <<mainpc, kernel, t2vars, t3vars, console, arr, i, mid>>

\* int mid = lowBound + (highBound - lowBound) / 2;
MidOf(lo, hi) == lo + CDiv(hi - lo, 2)

T4Mid ==
    /\ Runnable(4) /\ pc[4] = "L200"
    /\ mid' = MidOf(lowBound, highBound)
    /\ pc' = [pc EXCEPT ![4] = "L202"]
    /\ UNCHANGED <<mainpc, kernel, t2vars, t3vars, console,
                   arr, i, targetNumber, lowBound, highBound, result>>

\* Variant: lowBound = mid, without the + 1.
SearchStepNoAdvance(v, tgt, lo, hi, res, m) ==
    IF v = tgt THEN <<lo, hi, m, TRUE>>
    ELSE IF v < tgt THEN <<m, hi, res, FALSE>>
    ELSE <<lo, m - 1, res, FALSE>>

\* Variant: the comparison of line 207 reversed.
SearchStepReversed(v, tgt, lo, hi, res, m) ==
    IF v = tgt THEN <<lo, hi, m, TRUE>>
    ELSE IF v > tgt THEN <<m + 1, hi, res, FALSE>>
    ELSE <<lo, m - 1, res, FALSE>>

\* Lines 202-210 on the value v read from arr[mid]: the new
\* <<lowBound, highBound, result, found>>.
SearchStep(v, tgt, lo, hi, res, m) ==
    IF v = tgt THEN <<lo, hi, m, TRUE>>
    ELSE IF v < tgt THEN <<m + 1, hi, res, FALSE>>
    ELSE <<lo, m - 1, res, FALSE>>

T4Compare ==
    /\ Runnable(4) /\ pc[4] = "L202"
    /\ \E v \in ReadArr(arr, mid, targetNumber) :
          LET r == SearchStep(v, targetNumber, lowBound, highBound, result, mid)
          IN  /\ lowBound' = r[1]
              /\ highBound' = r[2]
              /\ result' = r[3]
              /\ pc' = [pc EXCEPT ![4] = IF r[4] THEN "L213" ELSE "L200"]
    /\ UNCHANGED <<mainpc, kernel, t2vars, t3vars, console, arr, i, targetNumber, mid>>

\* if (result != -1) printf(found) else printf(not found)
T4Message(tgt, res) == IF res # -1 THEN MsgFound(tgt, res) ELSE MsgNotFound(tgt)

T4Report ==
    /\ Runnable(4) /\ pc[4] = "L213"
    /\ Emit(4, T4Message(targetNumber, result))
    /\ pc' = [pc EXCEPT ![4] = "L218"]
    /\ UNCHANGED <<mainpc, kernel, t2vars, t3vars, t4vars>>

T4Delay ==
    /\ Runnable(4) /\ pc[4] = "L218"
    /\ DelayRequest(4, TASK4_PERIOD)
    /\ pc' = [pc EXCEPT ![4] = "L187"]
    /\ UNCHANGED <<mainpc, t2vars, t3vars, t4vars>>

vTask4 == T4Declare \/ T4Fill \/ T4Init \/ T4Mid \/ T4Compare \/ T4Report \/ T4Delay

(***************************************************************************)
(* Specifications.                                                         *)
(***************************************************************************)
Next == main_blinky \/ vTask1 \/ vTask2 \/ vTask3 \/ vTask4 \/ Tick

Spec == Init /\ [][Next]_vars

\* The scheduler lets every ready task run and the tick keeps coming.
Fairness ==
    /\ WF_vars(vTask1) /\ WF_vars(vTask2) /\ WF_vars(vTask3) /\ WF_vars(vTask4)
    /\ WF_vars(Tick)

FairSpec == Spec /\ Fairness

(***************************************************************************)
(* The search of vTask4 in isolation: the state right after line 197 with  *)
(* any target near or inside the array's range, vTask4 the only task.      *)
(***************************************************************************)
SearchTargets == (0 - Below)..(ArrLen - 1 + Above)

SearchInit ==
    /\ mainpc = "scheduler"
    /\ sched = "running"
    /\ state = [t \in Tasks |-> IF t = 4 THEN "ready" ELSE "notcreated"]
    /\ delay = [t \in Tasks |-> 0]
    /\ now = 0
    /\ pc = [t \in Tasks |-> IF t = 4 THEN "L200" ELSE TaskEntry(t)]
    /\ cVal = 0
    /\ resultMulti = <<>>
    /\ arr = Identity
    /\ i = ArrLen
    /\ targetNumber \in SearchTargets
    /\ lowBound = LowInit
    /\ highBound = HighInit
    /\ result = ResultInit
    /\ mid = 0
    /\ lastMsg = [t \in Tasks |-> NoMsg]
    /\ emits = [t \in Tasks |-> 0]
    /\ lastAct = [t \in Tasks |-> NoAct]

SearchNext == vTask4 \/ Tick

SearchSpec == SearchInit /\ [][SearchNext]_vars /\ WF_vars(vTask4) /\ WF_vars(Tick)

(***************************************************************************)
(* Properties.                                                             *)
(***************************************************************************)
InArray(x) == x \in 0..49

\* C1: the search ends with result equal to the target for every target the
\* array 0..49 holds (0 and 49 included): it reaches line 213, with result
\* the target, and the message written is "found at index <target>"; for the
\* literal target 36 the "not found" message is never written.
C1_SearchFindsPresentTarget ==
    /\ []((pc[4] = "L213" /\ InArray(targetNumber)) => result = targetNumber)
    /\ []((pc[4] = "L218" /\ InArray(targetNumber))
            => lastMsg[4] = MsgFound(targetNumber, targetNumber))
    /\ []((pc[4] = "L218" /\ lastAct[4].done) => lastMsg[4] = MsgFound(36, 36))
    /\ [](lastMsg[4] # MsgNotFound(36))
    /\ ((pc[4] = "L200" /\ InArray(targetNumber)) ~> (pc[4] = "L213"))

C1_Witness ==
    pc[4] = "L218" /\ targetNumber = 49 /\ lastMsg[4] = MsgFound(49, 49)

\* C2: the search loop ends in exactly two ways: the target is found, or the
\* bounds invert (lowBound > highBound) and result stays -1; the loop body
\* is never run with inverted bounds.
C2_LoopEndsOnInvertedBounds ==
    /\ (pc[4] = "L202" => lowBound <= highBound)
    /\ (pc[4] = "L213" => \/ result = mid
                          \/ (lowBound > highBound /\ result = -1))

\* C3: no task routine ever leaves its loop, and once the scheduler runs a
\* created task, that task is suspended again and again and made ready again
\* and again: it performs infinitely many activations.
LoopLines(t) == CASE t = 1 -> {"L159", "L160"}
                  [] t = 2 -> {"L168", "L169", "L170"}
                  [] t = 3 -> {"L179", "L180", "L181"}
                  [] t = 4 -> {"L187", "L190", "L194", "L200", "L202", "L213", "L218"}

Started(t) == sched = "running" /\ state[t] # "notcreated"

C3_TasksRunForever ==
    /\ [](\A t \in Tasks : pc[t] \in LoopLines(t))
    /\ \A t \in Tasks : Started(t) ~> (state[t] = "blocked" /\ lastAct[t].done)
    /\ \A t \in Tasks : Started(t) ~> (state[t] = "ready" /\ emits[t] = 1)

C3_Witness ==
    \A t \in Tasks : Started(t) /\ lastAct[t].done /\ state[t] = "ready" /\ emits[t] = 1

\* C4: with the four tasks registered and the scheduler started, once 1000 ms
\* have elapsed every task has written at least one message.
AllRegistered == sched = "running" /\ \A t \in Tasks : state[t] # "notcreated"

C4_AllEmitWithin1000ms ==
    (AllRegistered /\ now >= pdMS_TO_TICKS(1000))
        => \A t \in Tasks : lastMsg[t] # NoMsg

C4_Witness ==
    /\ AllRegistered
    /\ now >= pdMS_TO_TICKS(1000)
    /\ \A t \in Tasks : lastMsg[t] # NoMsg /\ lastAct[t].done

\* C5: a task never writes two messages without a delay request in between;
\* every delay request comes after exactly one message and asks for the
\* task's own period (200, 500, 1000, 100 ms); a task is suspended only at
\* the end of its loop body.
ClaimedPeriodMs(t) == CASE t = 1 -> 200 [] t = 2 -> 500 [] t = 3 -> 1000 [] t = 4 -> 100

C5_OneMessageThenOwnPeriod ==
    \A t \in Tasks :
        /\ emits[t] <= 1
        /\ lastAct[t].done =>
              /\ lastAct[t].msgs = 1
              /\ lastAct[t].ticks = pdMS_TO_TICKS(ClaimedPeriodMs(t))
        /\ state[t] = "blocked" =>
              /\ pc[t] = TaskEntry(t)
              /\ emits[t] = 0
              /\ lastAct[t].done
              /\ delay[t] \in 1..lastAct[t].ticks

C5_Witness ==
    \A t \in Tasks : state[t] = "blocked" /\ lastAct[t].done /\ now > 0

\* C6: when an xTaskCreate call of main_blinky has failed, the scheduler is
\* not started and no task runs.
CreateFailed ==
    \/ mainpc \notin {"L122"} /\ state[1] = "notcreated"
    \/ mainpc \notin {"L122", "L128"} /\ state[2] = "notcreated"
    \/ mainpc \notin {"L122", "L128", "L134"} /\ state[3] = "notcreated"
    \/ mainpc \notin {"L122", "L128", "L134", "L140"} /\ state[4] = "notcreated"

C6_CreateFailureHalts ==
    CreateFailed => (sched # "running" /\ \A t \in Tasks : lastMsg[t] = NoMsg)

\* C7: once vTaskStartScheduler has returned, main_blinky stays in its empty
\* loop: it does not return, no message is written, no task is created and
\* the scheduler is not started again.
C7_SpinsAfterSchedulerReturns ==
    [][mainpc = "L153" => (mainpc' = "L153" /\ UNCHANGED <<kernel, pc, console>>)]_vars

C7_Witness == mainpc = "L153" /\ sched = "failed"

\* C8: vTask3 computes 1000000000 * 2564851111 = 2564851111000000000 exactly,
\* within LONG_MAX = 2^63 - 1, and the message carries 2564851111, the second
\* operand, not the product.
Product == Dec(<<2, 5, 6, 4, 8, 5, 1, 1, 1, 1, 0, 0, 0, 0, 0, 0, 0, 0, 0>>)

C8_ProductExactMessageOperand ==
    /\ (pc[3] # "L179" \/ lastAct[3].done) =>
          /\ resultMulti = Product
          /\ FitsLong(resultMulti)
    /\ lastMsg[3] \in {NoMsg, Msg3(Dec(<<2, 5, 6, 4, 8, 5, 1, 1, 1, 1>>))}
    /\ lastMsg[3] # Msg3(Product)

C8_Witness ==
    pc[3] = "L181" /\ resultMulti = Product
                   /\ lastMsg[3] = Msg3(Dec(<<2, 5, 6, 4, 8, 5, 1, 1, 1, 1>>))

\* C9: a step of one task leaves the other tasks' locals, positions and
\* messages alone; every activation of vTask4 enters its search with
\* arr = 0..49, lowBound = 0, highBound = 49, result = -1; and each task only
\* ever writes its one fixed message, whatever the interleaving.
Own(t) == CASE t = 1 -> <<pc[1], lastMsg[1], emits[1], lastAct[1]>>
            [] t = 2 -> <<pc[2], lastMsg[2], emits[2], lastAct[2], cVal>>
            [] t = 3 -> <<pc[3], lastMsg[3], emits[3], lastAct[3], resultMulti>>
            [] t = 4 -> <<pc[4], lastMsg[4], emits[4], lastAct[4], arr, i,
                          targetNumber, lowBound, highBound, result, mid>>

StepOf(t) == CASE t = 1 -> vTask1 [] t = 2 -> vTask2 [] t = 3 -> vTask3 [] t = 4 -> vTask4

FixedMsg(t) == CASE t = 1 -> Msg1
                 [] t = 2 -> Msg2(9120, 504889)
                 [] t = 3 -> Msg3(Dec(<<2, 5, 6, 4, 8, 5, 1, 1, 1, 1>>))
                 [] t = 4 -> MsgFound(36, 36)

C9_TaskStateIsPrivate ==
    /\ [][\A t \in Tasks : \A u \in Tasks \ {t} : StepOf(t) => (Own(u))' = Own(u)]_vars
    /\ [][(pc[4] = "L194" /\ pc'[4] = "L200")
            => (arr' = [k \in 1..50 |-> k - 1] /\ lowBound' = 0 /\ highBound' = 49
                /\ result' = -1)]_vars
    /\ [](\A t \in Tasks : lastMsg[t] \in {NoMsg, FixedMsg(t)})

C9_Witness ==
    /\ pc[4] = "L200" /\ lowBound = 0 /\ highBound = 49 /\ result = -1 /\ lastAct[4].done
    /\ pc[2] = "L169" /\ pc[3] = "L180" /\ lastAct[2].done /\ lastAct[3].done

\* C10: whenever vTask4 reads arr[mid] (target 36), 0 <= lowBound <= mid <=
\* highBound <= 49 and the cell read was written; the bounds are never
\* inverted while the search runs.
C10_ReadsInBounds ==
    /\ pc[4] = "L202" =>
          /\ 0 <= lowBound /\ lowBound <= mid /\ mid <= highBound /\ highBound <= 49
          /\ Written(arr, mid)
    /\ pc[4] \in {"L200", "L202"} => lowBound <= highBound

C10_Witness == pc[4] = "L202" /\ mid = 35 /\ lowBound = 34 /\ highBound = 36

====
